---- MODULE Spec2Model ----
(***************************************************************************)
(* A model of josiepy's numerical scheme engine:                           *)
(*   - josie/solver/state.py         State, _StateDescriptor, StateTemplate *)
(*   - josie/solver/scheme/nonconservative.py  NonConservativeScheme        *)
(*   - josie/solver/twophase/schemes.py        Upwind, Rusanov              *)
(*   - josie/euler/problem.py        EulerProblem.F                         *)
(* Floating point numbers are modelled by integers.  Every sample datum is  *)
(* even, so that the products by 0.5 of the code are exact halvings.        *)
(***************************************************************************)
EXTENDS Integers, Sequences, FiniteSets, TLC

(***************************************************************************)
(* Bounds of the model                                                     *)
(***************************************************************************)
\* longest field list / argument list offered to StateTemplate and State
MaxFields == 2
\* number of State arrays, and of StateTemplate results, the caller holds on to
MaxKept == 1
\* largest leading (face count) dimension of the arrays handed to accumulate
NFaces == 2

VARIABLES
    \* ---- josie/solver/state.py: the class object State ----
    has_variables,   \* TRUE once the class attribute State._variables is bound
    cls_variables,   \* State._variables
    descr,           \* the _StateDescriptor attributes of State: name -> i
    instances,       \* the State arrays alive, each with the layout it was built for
    types,           \* the StateTemplate results the caller holds, each with the
                     \* field list it was asked for
    call,            \* the last operation called and the shape of its arguments
    result,          \* how the last operation ended: "ok" or the exception raised
    \* ---- one call of accumulate of a scheme composed of Upwind and Rusanov ----
    values,          \* the cell states, one two-phase state per face
    neigh_values,    \* the neighbour states
    normals,         \* the face normals
    surfaces,        \* the face surfaces
    problem,         \* self.problem[phase]: the EOS parameter of each phase's problem
    pc,              \* where the call stands: "ready", "trace", "done", "raised"
    error,           \* the exception the call ended with, "none" otherwise
    stage,           \* the last statement of the call that completed
    FS,              \* Rusanov.F: the output buffer FS, as F returns it
    loc,             \* Rusanov.F: the locals sigma_array, sigma, DeltaF, DeltaQ
    G_out,           \* what Upwind.G returned
    fluxes,          \* what accumulate returns
    \* ---- one call of the two-phase Rusanov.CFL ----
    phase_cfl,       \* what EulerRusanov.CFL returns for the values of each phase
    cfl_pc,          \* where the call stands: "ready", "done"
    dt,              \* what CFL returns
    \* ---- josie/mesh.py: one Mesh and one call of generate ----
    mesh,            \* self.left, self.bottom, self.right, self.top
    num_xi,          \* the argument num_xi
    num_eta,         \* the argument num_eta
    mesh_x,          \* the array x that generate returns
    mesh_y,          \* the array y that generate returns
    mesh_pc,         \* where the call stands: "ready", "done"
    \* ---- one call of Upwind.G on arrays of one or two leading dimensions ----
    g_shape,         \* values.shape[:-1]
    g_values,        \* values, a state per cell
    g_neigh_values,  \* neigh_values
    g_normals,       \* normals
    g_empty,         \* what np.empty_like(values) held
    g_Q_face,        \* Q_face when G returns
    g_G,             \* what G returns
    g_pc,            \* where the call stands: "ready", "done", "raised"
    g_error,         \* the exception the call ended with, "none" otherwise
    \* ---- josie/euler/problem.py: one call of EulerProblem.F ----
    cells,           \* cells.values, a state per cell (i, j)
    F_out,           \* the array F that the call returns
    F_pc             \* where the call stands: "ready", "done"

StateVars == <<has_variables, cls_variables, descr, instances, types, call, result>>

FluxVars == <<values, neigh_values, normals, surfaces, problem, pc, error, stage,
              FS, loc, G_out, fluxes>>

CFLVars == <<phase_cfl, cfl_pc, dt>>

MeshVars == <<mesh, num_xi, num_eta, mesh_x, mesh_y, mesh_pc>>

UpwindVars == <<g_shape, g_values, g_neigh_values, g_normals, g_empty, g_Q_face,
                g_G, g_pc, g_error>>

EulerVars == <<cells, F_out, F_pc>>

vars == <<StateVars, FluxVars, CFLVars, MeshVars, UpwindVars, EulerVars>>

(***************************************************************************)
(* josie/solver/state.py                                                   *)
(***************************************************************************)
Names == {"a", "b"}
Values == {0, 1}

SeqsUpTo(S, n) == UNION {[1..m -> S] : m \in 0..n}

FieldLists == SeqsUpTo(Names, MaxFields)
ArgLists == SeqsUpTo(Values, MaxFields)
\* **kwargs: an ordered dict, so its keys are distinct
KwargLists ==
    {kw \in SeqsUpTo(Names \X Values, MaxFields) :
        \A i, j \in DOMAIN kw : i # j => kw[i][1] # kw[j][1]}

Keys(kw) == [k \in DOMAIN kw |-> kw[k][1]]
KwValues(kw) == [k \in DOMAIN kw |-> kw[k][2]]

HasRepeatedName(fields) ==
    \E i, j \in DOMAIN fields : i # j /\ fields[i] = fields[j]

\* for i, field in enumerate(cls._variables): setattr(cls, field, _StateDescriptor(i))
\* (i is the 0-based index of Python; a later setattr of the same name replaces
\* the earlier one, descriptors of other names stay on the class)
RECURSIVE SetDescriptors(_, _, _)
SetDescriptors(d, variables, k) ==
    IF k > Len(variables) THEN d
    ELSE SetDescriptors(
            [n \in (DOMAIN d) \cup {variables[k]} |->
                IF n = variables[k] THEN k - 1 ELSE d[n]],
            variables, k + 1)

\* _StateDescriptor.__get__: obj[self.i]
CanGetField(arr, name) == name \in DOMAIN descr /\ descr[name] < Len(arr)
get_field(arr, name) == arr[descr[name] + 1]

\* State.__new__: "if args and kwargs"
BothGiven(args, kwargs) == Len(args) > 0 /\ Len(kwargs) > 0

\* State.__new__: "if not (len(args) == len(cls._variables))"
ArityMismatch_Lenient(args) == Len(args) > Len(cls_variables)
ArityMismatch(args) == ~(Len(args) = Len(cls_variables))

\* the caller keeps the object returned while it has room for it, and drops it
\* at once otherwise
Keep(kept, x) == IF Len(kept) < MaxKept THEN Append(kept, x) ELSE kept

CallOf(op, fields, nargs, nkw) ==
    [op |-> op, fields |-> fields, nargs |-> nargs, nkw |-> nkw]

\* StateTemplate.__new__ with a uniqueness check the code does not have
StateTemplate_Checked(fields) ==
    /\ call' = CallOf("define", fields, 0, 0)
    /\ IF HasRepeatedName(fields)
       THEN /\ result' = "ConfigurationError"
            /\ UNCHANGED <<has_variables, cls_variables, descr, instances, types>>
       ELSE /\ has_variables' = TRUE
            /\ cls_variables' = fields
            /\ types' = Keep(types, fields)
            /\ result' = "ok"
            /\ UNCHANGED <<descr, instances>>
    /\ UNCHANGED <<FluxVars, CFLVars, MeshVars, UpwindVars, EulerVars>>

\* StateTemplate.__new__: state_cls = State; state_cls._variables = fields
StateTemplate(fields) ==
    /\ has_variables' = TRUE
    /\ cls_variables' = fields
    /\ types' = Keep(types, fields)
    /\ call' = CallOf("define", fields, 0, 0)
    /\ result' = "ok"
    /\ UNCHANGED <<descr, instances>>
    /\ UNCHANGED <<FluxVars, CFLVars, MeshVars, UpwindVars, EulerVars>>

\* State.__new__(cls, *args, **kwargs)
StateNew(args, kwargs) ==
    /\ call' = CallOf("construct", <<>>, Len(args), Len(kwargs))
    /\ IF BothGiven(args, kwargs)
       THEN /\ result' = "ValueError"
            /\ UNCHANGED <<has_variables, cls_variables, descr, instances, types>>
       ELSE IF Len(kwargs) > 0
       THEN /\ has_variables' = TRUE
            /\ cls_variables' = Keys(kwargs)
            /\ descr' = SetDescriptors(descr, Keys(kwargs), 1)
            /\ instances' = Keep(instances,
                    [arr |-> KwValues(kwargs), layout |-> Keys(kwargs)])
            /\ result' = "ok"
            /\ UNCHANGED types
       ELSE IF ~has_variables
       THEN \* len(cls._variables) with the attribute never bound
            /\ result' = "AttributeError"
            /\ UNCHANGED <<has_variables, cls_variables, descr, instances, types>>
       ELSE IF ArityMismatch(args)
       THEN /\ result' = "ValueError"
            /\ UNCHANGED <<has_variables, cls_variables, descr, instances, types>>
       ELSE /\ descr' = SetDescriptors(descr, cls_variables, 1)
            /\ instances' = Keep(instances,
                    [arr |-> args, layout |-> cls_variables])
            /\ result' = "ok"
            /\ UNCHANGED <<has_variables, cls_variables, types>>
    /\ UNCHANGED <<FluxVars, CFLVars, MeshVars, UpwindVars, EulerVars>>

\* _StateDescriptor.__set__: obj[self.i] = value
SetField(s, name, v) ==
    /\ s \in DOMAIN instances
    /\ name \in DOMAIN descr
    /\ call' = CallOf("set_field", <<>>, 0, 0)
    /\ IF descr[name] < Len(instances[s].arr)
       THEN /\ instances' = [instances EXCEPT ![s].arr[descr[name] + 1] = v]
            /\ result' = "ok"
       ELSE /\ result' = "IndexError"
            /\ UNCHANGED instances
    /\ UNCHANGED <<has_variables, cls_variables, descr, types>>
    /\ UNCHANGED <<FluxVars, CFLVars, MeshVars, UpwindVars, EulerVars>>

\* numpy.ndarray.__setitem__: s[i] = v
SetItem(s, i, v) ==
    /\ s \in DOMAIN instances
    /\ call' = CallOf("set_item", <<>>, 0, 0)
    /\ IF i < Len(instances[s].arr)
       THEN /\ instances' = [instances EXCEPT ![s].arr[i + 1] = v]
            /\ result' = "ok"
       ELSE /\ result' = "IndexError"
            /\ UNCHANGED instances
    /\ UNCHANGED <<has_variables, cls_variables, descr, types>>
    /\ UNCHANGED <<FluxVars, CFLVars, MeshVars, UpwindVars, EulerVars>>

\* the last reference to a State array is dropped
Discard(s) ==
    /\ s \in DOMAIN instances
    /\ instances' = [k \in 1..(Len(instances) - 1) |->
                        IF k < s THEN instances[k] ELSE instances[k + 1]]
    /\ call' = CallOf("discard", <<>>, 0, 0)
    /\ result' = "ok"
    /\ UNCHANGED <<has_variables, cls_variables, descr, types>>
    /\ UNCHANGED <<FluxVars, CFLVars, MeshVars, UpwindVars, EulerVars>>

\* Every StateTemplate result is the class State itself, and type(s) of every
\* instance is State: the field list any of them sees is State._variables.
VariablesSeenBy(handle) == cls_variables


(***************************************************************************)
(* Two-phase states (josie/solver/twophase/state.py is not part of the     *)
(* sources at hand: the layout follows the docstring of Rusanov.F, 19      *)
(* fields, and the calls made on Q in twophase/schemes.py)                 *)
(***************************************************************************)
Phases == <<"phase1", "phase2">>
PhaseFieldSeq == <<"rho", "rhoU", "rhoV", "rhoE", "rhoe", "U", "V", "p", "c">>
PhaseFields == {PhaseFieldSeq[i] : i \in DOMAIN PhaseFieldSeq}
ConservativeFields == <<"rho", "rhoU", "rhoV", "rhoE">>
Mixture == "mixture"
FieldSeq ==
    <<<<Mixture, "alpha">>>>
        \o [i \in DOMAIN PhaseFieldSeq |-> <<Phases[1], PhaseFieldSeq[i]>>]
        \o [i \in DOMAIN PhaseFieldSeq |-> <<Phases[2], PhaseFieldSeq[i]>>]
Fields == {FieldSeq[i] : i \in DOMAIN FieldSeq}

Abs(x) == IF x < 0 THEN -x ELSE x
\* 0.5 * x: every datum of the model is even
Half(x) == x \div 2
Dot2(a, n) == a[1] * n[1] + a[2] * n[2]
Max2(x, y) == IF x >= y THEN x ELSE y
RECURSIVE MaxOfRow(_, _)
MaxOfRow(row, m) == IF m = 1 THEN row[1] ELSE Max2(MaxOfRow(row, m - 1), row[m])

\* Q.get_phase(phase): the fields of one phase, in a single-phase layout
get_phase(q, phase) == [n \in PhaseFields |-> q[<<phase, n>>]]
\* get_conservative(): the conserved fields
get_conservative(pq) == [i \in DOMAIN ConservativeFields |-> pq[ConservativeFields[i]]]
\* Q.set_phase_conservative(phase, x): x written into the phase's conserved fields
set_phase_conservative(fs, phase, x) ==
    [fld \in Fields |->
        IF fld[1] = phase /\ \E i \in DOMAIN ConservativeFields : ConservativeFields[i] = fld[2]
        THEN x[CHOOSE i \in DOMAIN ConservativeFields : ConservativeFields[i] = fld[2]]
        ELSE fs[fld]]

\* sample data: a phase state from its primitive values, a two-phase state
MkPhase(rho, U, V, rhoE, p, c) ==
    [n \in PhaseFields |->
        CASE n = "rho" -> rho
          [] n = "rhoU" -> rho * U
          [] n = "rhoV" -> rho * V
          [] n = "rhoE" -> rhoE
          [] n = "rhoe" -> rhoE - Half(rho * (U * U + V * V))
          [] n = "U" -> U
          [] n = "V" -> V
          [] n = "p" -> p
          [] n = "c" -> c]
MkQ(alpha, ph1, ph2) ==
    [fld \in Fields |->
        IF fld[1] = Mixture THEN alpha
        ELSE IF fld[1] = Phases[1] THEN ph1[fld[2]] ELSE ph2[fld[2]]]

PhaseSlow == MkPhase(2, 0, 0, 4, 2, 2)
PhaseFast == MkPhase(2, 4, 0, 20, 2, 2)
PhaseBack == MkPhase(4, -2, 2, 24, 4, 2)
QA == MkQ(2, PhaseFast, PhaseSlow)
QB == MkQ(4, PhaseSlow, PhaseBack)
\* what a face hands to the scheme: cell state, neighbour state, normal, surface
FaceSamples ==
    { <<QA, QA, <<1, 0>>, 2>>,
      <<QA, QB, <<1, 0>>, 2>>,
      <<QB, QA, <<-1, 0>>, 4>>,
      <<QA, QB, <<-1, 0>>, 2>>,
      <<QB, QA, <<0, 1>>, 2>> }
\* what np.empty_like may hold
GarbageValues == {0, 6}
\* the reference pressure of the EOS of a phase's problem
EosSamples == {0, 2}

(***************************************************************************)
(* numpy: arrays with one leading dimension                                *)
(***************************************************************************)
\* two leading dimensions broadcast when they agree or one of them is 1
Broadcasts(m, n) == m = n \/ m = 1 \/ n = 1
BroadcastLen(m, n) == IF m = 1 THEN n ELSE m
\* the element an array of leading dimension 1 or more contributes at f
At(x, f) == IF Len(x) = 1 THEN x[1] ELSE x[f]
\* an assignment of m rows into n rows
AssignsInto(m, n) == m = n \/ m = 1

\* the flux tensor without the pressure in the momentum rows
EulerF_NoPressure(pq) ==
    << <<pq["rhoU"], pq["rhoV"]>>,
       <<pq["rhoU"] * pq["U"], pq["rhoU"] * pq["V"]>>,
       <<pq["rhoV"] * pq["U"], pq["rhoV"] * pq["V"]>>,
       <<(pq["rhoE"] + pq["p"]) * pq["U"], (pq["rhoE"] + pq["p"]) * pq["V"]>> >>

(***************************************************************************)
(* josie/euler/problem.py and the collaborators of the two-phase scheme    *)
(***************************************************************************)
\* EulerProblem.F: the 4 x 2 flux tensor of one cell
EulerF(pq) ==
    << <<pq["rhoU"], pq["rhoV"]>>,
       <<pq["rhoU"] * pq["U"] + pq["p"], pq["rhoU"] * pq["V"]>>,
       <<pq["rhoV"] * pq["U"], pq["rhoV"] * pq["V"] + pq["p"]>>,
       <<(pq["rhoE"] + pq["p"]) * pq["U"], (pq["rhoE"] + pq["p"]) * pq["V"]>> >>

\* self.problem[phase].F: the Euler flux of a phase with the pressure law of
\* that phase's own EOS (eos: the reference pressure it adds)
ProblemF(eos, pq) == EulerF([pq EXCEPT !["p"] = pq["p"] + eos])

\* self.problem.closure.uI: the interfacial velocity, a function of one state
uI(q) == <<q[<<Phases[1], "U">>], q[<<Phases[1], "V">>]>>
\* the interfacial pressure of the closure
pI(q) == q[<<Phases[2], "p">>]

\* self.problem.B(q)[i][j][k]: the coupling tensor; it multiplies the gradient
\* of the volume fraction only
ProblemB(q, i, j, k) ==
    IF j # <<Mixture, "alpha">> THEN 0
    ELSE IF i = <<Mixture, "alpha">> THEN uI(q)[k]
    ELSE LET sign == IF i[1] = Phases[1] THEN -1 ELSE 1 IN
         CASE i[2] = "rhoU" -> IF k = 1 THEN sign * pI(q) ELSE 0
           [] i[2] = "rhoV" -> IF k = 2 THEN sign * pI(q) ELSE 0
           [] i[2] = "rhoE" -> sign * pI(q) * uI(q)[k]
           [] OTHER -> 0

\* EulerRusanov.compute_U_norm
compute_U_norm(pq, n) == pq["U"] * n[1] + pq["V"] * n[2]
\* EulerRusanov.compute_sigma: one signal speed per face, kept on a last axis
\* of its own so that the four of a face can be concatenated
compute_sigma(U, c) == <<Abs(U) + c>>

(***************************************************************************)
(* josie/solver/twophase/schemes.py: Rusanov.F                             *)
(***************************************************************************)
LenV == Len(values)
LenNV == Len(neigh_values)
LenN == Len(normals)
LenS == Len(surfaces)

\* the four signal speeds of face f, in the order they are appended to sigmas:
\* for each phase, the cell side and then the neighbour side
PhaseSigmas(phase, f) ==
    LET phase_values == get_phase(At(values, f), phase)
        phase_neigh_values == get_phase(At(neigh_values, f), phase)
        U == compute_U_norm(phase_values, At(normals, f))
        U_neigh == compute_U_norm(phase_neigh_values, At(normals, f))
    IN compute_sigma(U, phase_values["c"])
            \o compute_sigma(U_neigh, phase_neigh_values["c"])

\* compute_U_norm broadcasts states and normals; np.concatenate wants the
\* leading dimensions of the arrays it joins to agree
SigmaShapesOK ==
    /\ Broadcasts(LenV, LenN)
    /\ Broadcasts(LenNV, LenN)
    /\ BroadcastLen(LenV, LenN) = BroadcastLen(LenNV, LenN)

\* sigma_array = np.concatenate(sigmas, axis=-1)
SigmaArray ==
    [f \in 1..BroadcastLen(LenV, LenN) |->
        PhaseSigmas(Phases[1], f) \o PhaseSigmas(Phases[2], f)]

\* sigma = np.max(sigma_array, axis=-1), had the faces been flattened with
\* the last axis
SigmaMax_Flattened(sa) ==
    [f \in DOMAIN sa |->
        CHOOSE m \in {MaxOfRow(sa[g], Len(sa[g])) : g \in DOMAIN sa} :
            \A g \in DOMAIN sa : MaxOfRow(sa[g], Len(sa[g])) <= m]
\* sigma = np.max(sigma_array, axis=-1)
SigmaMax(sa) == [f \in DOMAIN sa |-> MaxOfRow(sa[f], Len(sa[f]))]

\* DeltaF = 0.5 * (self.problem[Phases.PHASE1].F(phase_values)
\*                 + self.problem[Phases.PHASE2].F(phase_neigh_values))
\* DeltaF = np.einsum("...kl,...l->...k", DeltaF, normals)
DeltaFOf(phase, f) ==
    LET phase_values == get_phase(At(values, f), phase)
        phase_neigh_values == get_phase(At(neigh_values, f), phase)
        Fc == ProblemF(problem[Phases[1]], phase_values)
        Fn == ProblemF(problem[Phases[2]], phase_neigh_values)
    IN [k \in DOMAIN ConservativeFields |->
            Dot2([l \in 1..2 |-> Half(Fc[k][l] + Fn[k][l])], At(normals, f))]

\* DeltaQ = 0.5 * sigma[..., np.newaxis]
\*              * (phase_neigh_values.get_conservative() - phase_values.get_conservative())
DeltaQOf(phase, f, sigma) ==
    LET phase_values == get_phase(At(values, f), phase)
        phase_neigh_values == get_phase(At(neigh_values, f), phase)
    IN [k \in DOMAIN ConservativeFields |->
            Half(At(sigma, f)) * (get_conservative(phase_neigh_values)[k]
                                - get_conservative(phase_values)[k])]

\* the leading dimension of surfaces[..., np.newaxis] * (DeltaF - DeltaQ)
FluxLen(a) ==
    BroadcastLen(LenS,
        BroadcastLen(BroadcastLen(BroadcastLen(LenV, LenNV), LenN),
                     BroadcastLen(a, BroadcastLen(LenV, LenNV))))
\* every product and sum of the flux loop broadcasts, and the result can be
\* assigned into FS, which has the leading dimension of values
FluxShapesOK(a) ==
    LET d == BroadcastLen(LenV, LenNV)
        e == BroadcastLen(d, LenN)
        g == BroadcastLen(a, d)
        h == BroadcastLen(e, g)
    IN /\ Broadcasts(LenV, LenNV)
       /\ Broadcasts(d, LenN)
       /\ Broadcasts(a, d)
       /\ Broadcasts(e, g)
       /\ Broadcasts(LenS, h)
       /\ AssignsInto(FluxLen(a), LenV)

\* FS.set_phase_conservative(phase, surfaces[..., np.newaxis] * (DeltaF - DeltaQ))
\* for both phases
RusanovFlux(fs, dF, dQ) ==
    [f \in DOMAIN fs |->
        LET x(phase) == [k \in DOMAIN ConservativeFields |->
                            At(surfaces, f) * (At(dF[phase], f)[k] - At(dQ[phase], f)[k])]
        IN set_phase_conservative(
                set_phase_conservative(fs[f], Phases[1], x(Phases[1])),
                Phases[2], x(Phases[2]))]

\* U_face of one face with cell state q, neighbour state nq and normal n:
\* UI_VI = uI(values), UI_VI_neigh = uI(values), U_face = 0.5 * (UI + UI_neigh)
UFaceOf(q, nq, n) ==
    LET UI == Dot2(uI(q), n)
        UI_neigh == Dot2(uI(q), n)
    IN Half(UI + UI_neigh)

(***************************************************************************)
(* josie/solver/twophase/schemes.py: Upwind.G                              *)
(***************************************************************************)
\* U_face = 0.5 * (UI + UI_neigh), both from closure.uI(values)
U_face(f) == UFaceOf(At(values, f), At(neigh_values, f), At(normals, f))
\* np.where(U_face > 0), np.where(U_face < 0)
IdxPositive == {f \in 1..BroadcastLen(LenV, LenN) : U_face(f) > 0}
IdxNegative == {f \in 1..BroadcastLen(LenV, LenN) : U_face(f) < 0}
\* the fancy indexing of Q_face, neigh_values and values stays within bounds
UpwindIndexOK ==
    /\ IdxPositive \subseteq (DOMAIN neigh_values \cap DOMAIN values)
    /\ IdxNegative \subseteq DOMAIN values
\* Q_face after the two assignments; g is what np.empty_like left in it
Q_face(g) ==
    LET positive == IdxPositive
        negative == IdxNegative
    IN [f \in DOMAIN values |->
            IF f \in negative THEN values[f]
            ELSE IF f \in positive THEN neigh_values[f]
            ELSE [fld \in Fields |-> g]]
\* return np.einsum("...i,...j->...ij", Q_face, normals)
UpwindG(g) ==
    LET Qf == Q_face(g)
    IN [f \in 1..BroadcastLen(LenV, LenN) |->
            [j \in Fields |-> [k \in 1..2 |-> At(Qf, f)[j] * At(normals, f)[k]]]]

(***************************************************************************)
(* josie/solver/scheme/nonconservative.py: NonConservativeScheme.accumulate *)
(***************************************************************************)
\* np.einsum("...ijk,...jk->...i", B, G) with B = B(values) alone
RECURSIVE Einsum_CellOnly(_, _, _, _, _)
Einsum_CellOnly(q, nq, G, i, m) ==
    IF m = 0 THEN 0
    ELSE Einsum_CellOnly(q, nq, G, i, m - 1)
            + ProblemB(q, i, FieldSeq[m], 1) * G[FieldSeq[m]][1]
            + ProblemB(q, i, FieldSeq[m], 2) * G[FieldSeq[m]][2]
\* B = 0.5 * (self.problem.B(values) + self.problem.B(neigh_values))
\* np.einsum("...ijk,...jk->...i", B, G): the sum over the first m fields j
\* and over k
RECURSIVE Einsum_ijk_jk(_, _, _, _, _)
Einsum_ijk_jk(q, nq, G, i, m) ==
    IF m = 0 THEN 0
    ELSE Einsum_ijk_jk(q, nq, G, i, m - 1)
            + Half(ProblemB(q, i, FieldSeq[m], 1) + ProblemB(nq, i, FieldSeq[m], 1))
                    * G[FieldSeq[m]][1]
            + Half(ProblemB(q, i, FieldSeq[m], 2) + ProblemB(nq, i, FieldSeq[m], 2))
                    * G[FieldSeq[m]][2]

NonConservativeTerm_CellOnly(q, nq, G) ==
    [i \in Fields |-> Einsum_CellOnly(q, nq, G, i, Len(FieldSeq))]
\* the nonconservative contribution of one face
NonConservativeTerm(q, nq, G) ==
    [i \in Fields |-> Einsum_ijk_jk(q, nq, G, i, Len(FieldSeq))]

\* B, G and the einsum broadcast, and the sum can be added in place to fluxes
NonConservativeShapesOK ==
    LET d == BroadcastLen(LenV, LenNV)
        a == BroadcastLen(LenV, LenN)
    IN /\ Broadcasts(LenV, LenNV)
       /\ Broadcasts(LenV, LenN)
       /\ Broadcasts(d, a)
       /\ AssignsInto(BroadcastLen(d, a), LenV)

\* fluxes += np.einsum("...ijk,...jk->...i", B, G)
AddNonConservative(fs, G) ==
    [f \in DOMAIN fs |->
        LET nc == NonConservativeTerm(At(values, f), At(neigh_values, f), At(G, f))
        IN [i \in Fields |-> fs[f][i] + nc[i]]]

NoLocals == [sigma_array |-> <<>>, sigma |-> <<>>, DeltaF |-> <<>>, DeltaQ |-> <<>>]

\* the four arrays have the same leading dimension
LeadingDimsAgree == LenV = LenNV /\ LenV = LenN /\ LenV = LenS

\* Call with a check of the leading dimensions, which the code does not have,
\* ahead of everything else
Call_Checked ==
    /\ pc = "ready"
    /\ IF ~LeadingDimsAgree
       THEN /\ pc' = "raised"
            /\ error' = "ShapeError"
            /\ UNCHANGED <<FS, loc, stage>>
       ELSE /\ \E g \in GarbageValues :
                    FS' = [f \in DOMAIN values |-> [fld \in Fields |-> g]]
            /\ loc' = [loc EXCEPT !.sigma_array = SigmaArray]
            /\ stage' = "sigma_array"
            /\ pc' = "trace"
            /\ error' = "none"
    /\ UNCHANGED <<values, neigh_values, normals, surfaces, problem, G_out, fluxes>>
    /\ UNCHANGED <<StateVars, CFLVars, MeshVars, UpwindVars, EulerVars>>

\* Call with the debugger entered after the maximum of the sigmas is taken
Call_TraceAfterMax ==
    /\ pc = "ready"
    /\ \E g \in GarbageValues :
            FS' = [f \in DOMAIN values |-> [fld \in Fields |-> g]]
    /\ IF SigmaShapesOK
       THEN /\ loc' = [loc EXCEPT !.sigma_array = SigmaArray, !.sigma = SigmaMax(SigmaArray)]
            /\ stage' = "sigma"
            /\ pc' = "trace"
            /\ error' = "none"
       ELSE /\ loc' = loc
            /\ stage' = "FS"
            /\ pc' = "raised"
            /\ error' = "ValueError"
    /\ UNCHANGED <<values, neigh_values, normals, surfaces, problem, G_out, fluxes>>
    /\ UNCHANGED <<StateVars, CFLVars, MeshVars, UpwindVars, EulerVars>>

\* accumulate is called: super().accumulate reaches Rusanov.F, which allocates
\* FS and collects the sigmas, up to the call of the debugger
Call ==
    /\ pc = "ready"
    /\ \E g \in GarbageValues :
            FS' = [f \in DOMAIN values |-> [fld \in Fields |-> g]]
    /\ IF SigmaShapesOK
       THEN /\ loc' = [loc EXCEPT !.sigma_array = SigmaArray]
            /\ stage' = "sigma_array"
            /\ pc' = "trace"
            /\ error' = "none"
       ELSE /\ loc' = loc
            /\ stage' = "FS"
            /\ pc' = "raised"
            /\ error' = "ValueError"
    /\ UNCHANGED <<values, neigh_values, normals, surfaces, problem, G_out, fluxes>>
    /\ UNCHANGED <<StateVars, CFLVars, MeshVars, UpwindVars, EulerVars>>

\* the debugger is left with "continue": the rest of Rusanov.F, and then the
\* rest of NonConservativeScheme.accumulate
Continue ==
    /\ pc = "trace"
    /\ LET sigma == SigmaMax(loc.sigma_array)
           dF == [ph \in {Phases[1], Phases[2]} |->
                    [f \in 1..BroadcastLen(BroadcastLen(LenV, LenNV), LenN) |-> DeltaFOf(ph, f)]]
           dQ == [ph \in {Phases[1], Phases[2]} |->
                    [f \in 1..BroadcastLen(Len(sigma), BroadcastLen(LenV, LenNV)) |->
                        DeltaQOf(ph, f, sigma)]]
       IN IF ~FluxShapesOK(Len(sigma))
          THEN /\ loc' = [loc EXCEPT !.sigma = sigma]
               /\ stage' = "sigma"
               /\ pc' = "raised"
               /\ error' = "ValueError"
               /\ UNCHANGED <<FS, G_out, fluxes>>
          ELSE /\ loc' = [loc EXCEPT !.sigma = sigma, !.DeltaF = dF, !.DeltaQ = dQ]
               /\ FS' = RusanovFlux(FS, dF, dQ)
               /\ IF ~UpwindIndexOK
                  THEN /\ stage' = "F"
                       /\ pc' = "raised"
                       /\ error' = "IndexError"
                       /\ UNCHANGED <<G_out, fluxes>>
                  ELSE \E g \in GarbageValues :
                       /\ G_out' = UpwindG(g)
                       /\ IF ~NonConservativeShapesOK
                          THEN /\ stage' = "G"
                               /\ pc' = "raised"
                               /\ error' = "ValueError"
                               /\ UNCHANGED fluxes
                          ELSE /\ fluxes' = AddNonConservative(FS', G_out')
                               /\ stage' = "fluxes"
                               /\ pc' = "done"
                               /\ error' = "none"
    /\ UNCHANGED <<values, neigh_values, normals, surfaces, problem>>
    /\ UNCHANGED <<StateVars, CFLVars, MeshVars, UpwindVars, EulerVars>>

\* the debugger is left with "quit": set_trace raises BdbQuit
Quit ==
    /\ pc = "trace"
    /\ pc' = "raised"
    /\ error' = "BdbQuit"
    /\ UNCHANGED <<values, neigh_values, normals, surfaces, problem, stage,
                   FS, loc, G_out, fluxes>>
    /\ UNCHANGED <<StateVars, CFLVars, MeshVars, UpwindVars, EulerVars>>

NextFlux ==
    \/ Call
    \/ Continue
    \/ Quit


(***************************************************************************)
(* Specifications                                                          *)
(***************************************************************************)
\* the module is imported: no state type is defined, nothing is accumulated
(***************************************************************************)
(* Rusanov.CFL of the two-phase scheme                                     *)
(***************************************************************************)
\* dt = 1e9: the value the loop over the phases starts from
BigValue == 1000000000

\* time step bounds a phase can yield, on both sides of BigValue
BoundSamples ==
    {2, 10, 999999999, 1000000000, 1000000001, 1500000000, 2000000000}

\* np.min((a, b))
Min2(a, b) == IF a <= b THEN a ELSE b

\* EulerRusanov.CFL(values.get_phase(phase), volumes, normals, surfaces, CFL_value)
EulerRusanovCFL(phase) == phase_cfl[phase]

\* the loop of CFL, one iteration per phase in the order of Phases
RECURSIVE CFLLoop(_, _)
CFLLoop(d, k) ==
    IF k > Len(Phases) THEN d
    ELSE CFLLoop(Min2(EulerRusanovCFL(Phases[k]), d), k + 1)

\* CFL is called and returns
CFL ==
    /\ cfl_pc = "ready"
    /\ dt' = CFLLoop(BigValue, 1)
    /\ cfl_pc' = "done"
    /\ UNCHANGED phase_cfl
    /\ UNCHANGED <<StateVars, FluxVars, MeshVars, UpwindVars, EulerVars>>

\* between two calls of CFL the time integrator advances the state, and the
\* bounds of the phases are other ones at the next call
Advance ==
    /\ cfl_pc = "done"
    /\ phase_cfl' \in [{Phases[1], Phases[2]} -> BoundSamples]
    /\ cfl_pc' = "ready"
    /\ UNCHANGED dt
    /\ UNCHANGED <<StateVars, FluxVars, MeshVars, UpwindVars, EulerVars>>

NextCFL ==
    \/ CFL
    \/ Advance

(***************************************************************************)
(* josie/mesh.py: Mesh.generate                                            *)
(***************************************************************************)
\* the largest num_xi and num_eta
MaxNum == 3

\* points a boundary curve passes through
PointSamples == {<<0, 2>>, <<4, 0>>}

\* np.linspace(0, 1, num) for num >= 2: the samples k / (num - 1), k = 0..num-1,
\* held by their numerator k; the denominator is Steps(num)
Steps(num) == num - 1
Linspace(num) == 0..Steps(num)

\* a boundary curve called on the samples of linspace: the point at k / Steps
CurvesOn(num) == [Linspace(num) -> PointSamples]

\* x[i, j] (c = 1) or y[i, j] (c = 2) of the transfinite interpolation, with
\* xi = i / N and eta = j / M, as the exact fraction of denominator N * M; the
\* value returned is the numerator
TFI_NoTopRight(c, i, j) ==
    LET N == Steps(num_xi)
        M == Steps(num_eta)
    IN    (N - i) * M * mesh.left[j][c] + i * M * mesh.right[j][c]
        + N * (M - j) * mesh.bottom[i][c] + N * j * mesh.top[i][c]
        - (N - i) * (M - j) * mesh.bottom[0][c] - (N - i) * j * mesh.top[0][c]
        - (M - j) * i * mesh.bottom[N][c]

TFI(c, i, j) ==
    LET N == Steps(num_xi)
        M == Steps(num_eta)
        xl == mesh.left[j][c]
        xr == mesh.right[j][c]
        xb == mesh.bottom[i][c]
        xt == mesh.top[i][c]
        xb0 == mesh.bottom[0][c]
        xb1 == mesh.bottom[N][c]
        xt0 == mesh.top[0][c]
        xt1 == mesh.top[N][c]
    IN    (N - i) * M * xl + i * M * xr
        + N * (M - j) * xb + N * j * xt
        - (N - i) * (M - j) * xb0 - (N - i) * j * xt0
        - (M - j) * i * xb1 - i * j * xt1

\* the denominator of the entries of x and y
Den == Steps(num_xi) * Steps(num_eta)

\* generate(num_xi, num_eta): both loops, then return (x, y)
Generate ==
    /\ mesh_pc = "ready"
    /\ mesh_x' = [i \in Linspace(num_xi) |-> [j \in Linspace(num_eta) |-> TFI(1, i, j)]]
    /\ mesh_y' = [i \in Linspace(num_xi) |-> [j \in Linspace(num_eta) |-> TFI(2, i, j)]]
    /\ mesh_pc' = "done"
    /\ UNCHANGED <<mesh, num_xi, num_eta>>
    /\ UNCHANGED <<StateVars, FluxVars, CFLVars, UpwindVars, EulerVars>>

NextMesh ==
    \/ Generate

(***************************************************************************)
(* Upwind.G on arrays of one or two leading dimensions                     *)
(***************************************************************************)
\* the largest extent of a leading dimension
MaxSide == 2

\* the states of a cell and the normals of a face
CellSamples == {QA, QB}
NormalSamples == {<<1, 0>>, <<-1, 0>>}

\* values.shape[:-1]
Shapes == {<<nx>> : nx \in 1..MaxSide} \cup {<<nx, ny>> : nx \in 1..MaxSide, ny \in 1..MaxSide}

\* the indices of the cells of an array of leading shape sh
Cells(sh) ==
    IF Len(sh) = 1 THEN {<<i>> : i \in 0..(sh[1] - 1)}
    ELSE {<<i, j>> : i \in 0..(sh[1] - 1), j \in 0..(sh[2] - 1)}

\* U_face, cell by cell
GUFace(c) == UFaceOf(g_values[c], g_neigh_values[c], g_normals[c])

\* idx = np.where(U_face > 0), idx = np.where(U_face < 0): the cells selected
WherePositive == {c \in Cells(g_shape) : GUFace(c) > 0}
WhereNegative == {c \in Cells(g_shape) : GUFace(c) < 0}

\* the index array that [idx, ...] makes of the tuple idx: every coordinate of
\* every selected cell, all of them used as indices of the first axis
FirstAxisIndices(sel) == {c[d] : c \in sel, d \in 1..Len(g_shape)}

\* the indices are within the first axis
IndexInBounds(sel) == FirstAxisIndices(sel) \subseteq 0..(g_shape[1] - 1)

\* Q_face[idx, ...] = source[idx, ...]
AssignWhere(q, source, sel) ==
    [c \in Cells(g_shape) |-> IF c[1] \in FirstAxisIndices(sel) THEN source[c] ELSE q[c]]

\* G(values, neigh_values, normals, surfaces)
G ==
    /\ g_pc = "ready"
    /\ \E g \in GarbageValues :
        LET empty == [c \in Cells(g_shape) |-> [fld \in Fields |-> g]]
            Q1 == AssignWhere(empty, g_neigh_values, WherePositive)
            Q2 == AssignWhere(Q1, g_values, WhereNegative)
        IN /\ g_empty' = g
           /\ IF ~IndexInBounds(WherePositive)
              THEN /\ g_pc' = "raised" /\ g_error' = "IndexError"
                   /\ g_Q_face' = empty
                   /\ UNCHANGED g_G
              ELSE IF ~IndexInBounds(WhereNegative)
              THEN /\ g_pc' = "raised" /\ g_error' = "IndexError"
                   /\ g_Q_face' = Q1
                   /\ UNCHANGED g_G
              ELSE /\ g_pc' = "done" /\ g_error' = "none"
                   /\ g_Q_face' = Q2
                   /\ g_G' = [c \in Cells(g_shape) |->
                                [j \in Fields |->
                                    [k \in 1..2 |-> Q2[c][j] * g_normals[c][k]]]]
    /\ UNCHANGED <<g_shape, g_values, g_neigh_values, g_normals>>
    /\ UNCHANGED <<StateVars, FluxVars, CFLVars, MeshVars, EulerVars>>

NextUpwind ==
    \/ G

(***************************************************************************)
(* josie/euler/problem.py: EulerProblem.F on the cells of a mesh           *)
(***************************************************************************)
\* the fields of a cell that F reads, and the density
MkEuler(rho, U, V, rhoE, p) ==
    [n \in {"rho", "rhoU", "rhoV", "rhoE", "U", "V", "p"} |->
        CASE n = "rho" -> rho
          [] n = "rhoU" -> rho * U
          [] n = "rhoV" -> rho * V
          [] n = "rhoE" -> rhoE
          [] n = "U" -> U
          [] n = "V" -> V
          [] n = "p" -> p]

\* rho = 1, U = 1, V = 0, p = 1 with an ideal gas of gamma = 1.4: rhoE = 3
EulerUnit == MkEuler(1, 1, 0, 3, 1)
EulerSkew == MkEuler(2, 3, -1, 16, 4)
EulerRest == MkEuler(3, 0, 0, 5, 2)
EulerSamples == {EulerUnit, EulerSkew, EulerRest}

\* num_cells_x, num_cells_y, _ = cells.values.shape
CellShapes == {<<nx, ny>> : nx \in 1..MaxSide, ny \in 1..MaxSide}

\* F(cells): the 4 x 2 tensor of every cell
F ==
    /\ F_pc = "ready"
    /\ F_out' = [c \in DOMAIN cells |-> EulerF(cells[c])]
    /\ F_pc' = "done"
    /\ UNCHANGED cells
    /\ UNCHANGED <<StateVars, FluxVars, CFLVars, MeshVars, UpwindVars>>

\* between two calls of F the solver writes the new state of a cell
Update ==
    /\ F_pc = "done"
    /\ \E c \in DOMAIN cells, q \in EulerSamples : cells' = [cells EXCEPT ![c] = q]
    /\ F_pc' = "ready"
    /\ UNCHANGED F_out
    /\ UNCHANGED <<StateVars, FluxVars, CFLVars, MeshVars, UpwindVars>>

NextEuler ==
    \/ F
    \/ Update

InitState ==
    /\ has_variables = FALSE
    /\ cls_variables = <<>>
    /\ descr = <<>>
    /\ instances = <<>>
    /\ types = <<>>
    /\ call = CallOf("import", <<>>, 0, 0)
    /\ result = "ok"
    /\ values = <<>> /\ neigh_values = <<>> /\ normals = <<>> /\ surfaces = <<>>
    /\ problem = <<>>
    /\ pc = "idle" /\ error = "none" /\ stage = "none"
    /\ FS = <<>> /\ loc = NoLocals /\ G_out = <<>> /\ fluxes = <<>>
    /\ phase_cfl = <<>> /\ cfl_pc = "idle" /\ dt = 0
    /\ mesh = <<>> /\ num_xi = 0 /\ num_eta = 0
    /\ mesh_x = <<>> /\ mesh_y = <<>> /\ mesh_pc = "idle"
    /\ g_shape = <<>> /\ g_values = <<>> /\ g_neigh_values = <<>> /\ g_normals = <<>>
    /\ g_empty = 0 /\ g_Q_face = <<>> /\ g_G = <<>> /\ g_pc = "idle" /\ g_error = "none"
    /\ cells = <<>> /\ F_out = <<>> /\ F_pc = "idle"

\* the arguments of one call of accumulate: each array has a leading dimension
\* of its own, the problem of each phase its own EOS
InitFlux ==
    /\ has_variables = FALSE
    /\ cls_variables = <<>>
    /\ descr = <<>>
    /\ instances = <<>>
    /\ types = <<>>
    /\ call = CallOf("import", <<>>, 0, 0)
    /\ result = "ok"
    /\ \E smp \in [1..NFaces -> FaceSamples] :
       \E lv \in 1..NFaces, lnv \in 1..NFaces, ln \in 1..NFaces, ls \in 1..NFaces :
            /\ values = [f \in 1..lv |-> smp[f][1]]
            /\ neigh_values = [f \in 1..lnv |-> smp[f][2]]
            /\ normals = [f \in 1..ln |-> smp[f][3]]
            /\ surfaces = [f \in 1..ls |-> smp[f][4]]
    /\ problem \in [{Phases[1], Phases[2]} -> EosSamples]
    /\ pc = "ready" /\ error = "none" /\ stage = "none"
    /\ FS = <<>> /\ loc = NoLocals /\ G_out = <<>> /\ fluxes = <<>>
    /\ phase_cfl = <<>> /\ cfl_pc = "idle" /\ dt = 0
    /\ mesh = <<>> /\ num_xi = 0 /\ num_eta = 0
    /\ mesh_x = <<>> /\ mesh_y = <<>> /\ mesh_pc = "idle"
    /\ g_shape = <<>> /\ g_values = <<>> /\ g_neigh_values = <<>> /\ g_normals = <<>>
    /\ g_empty = 0 /\ g_Q_face = <<>> /\ g_G = <<>> /\ g_pc = "idle" /\ g_error = "none"
    /\ cells = <<>> /\ F_out = <<>> /\ F_pc = "idle"

NextState ==
    \/ \E fields \in FieldLists : StateTemplate(fields)
    \/ \E args \in ArgLists, kwargs \in KwargLists : StateNew(args, kwargs)
    \/ \E s \in 1..MaxKept, name \in Names, v \in Values : SetField(s, name, v)
    \/ \E s \in 1..MaxKept, i \in 0..(MaxFields - 1), v \in Values : SetItem(s, i, v)
    \/ \E s \in 1..MaxKept : Discard(s)

\* state types and states are defined, built and written
SpecState == InitState /\ [][NextState]_vars

\* one call of accumulate on every choice of arguments
SpecFlux == InitFlux /\ [][NextFlux]_vars

\* the per-phase bounds of the first call of CFL
InitCFL ==
    /\ has_variables = FALSE
    /\ cls_variables = <<>>
    /\ descr = <<>>
    /\ instances = <<>>
    /\ types = <<>>
    /\ call = CallOf("import", <<>>, 0, 0)
    /\ result = "ok"
    /\ values = <<>> /\ neigh_values = <<>> /\ normals = <<>> /\ surfaces = <<>>
    /\ problem = <<>>
    /\ pc = "idle" /\ error = "none" /\ stage = "none"
    /\ FS = <<>> /\ loc = NoLocals /\ G_out = <<>> /\ fluxes = <<>>
    /\ phase_cfl \in [{Phases[1], Phases[2]} -> BoundSamples]
    /\ cfl_pc = "ready" /\ dt = 0
    /\ mesh = <<>> /\ num_xi = 0 /\ num_eta = 0
    /\ mesh_x = <<>> /\ mesh_y = <<>> /\ mesh_pc = "idle"
    /\ g_shape = <<>> /\ g_values = <<>> /\ g_neigh_values = <<>> /\ g_normals = <<>>
    /\ g_empty = 0 /\ g_Q_face = <<>> /\ g_G = <<>> /\ g_pc = "idle" /\ g_error = "none"
    /\ cells = <<>> /\ F_out = <<>> /\ F_pc = "idle"

\* CFL is called once per time step
SpecCFL == InitCFL /\ [][NextCFL]_vars

\* a Mesh of four boundary curves and the arguments of one call of generate
InitMesh ==
    /\ has_variables = FALSE
    /\ cls_variables = <<>>
    /\ descr = <<>>
    /\ instances = <<>>
    /\ types = <<>>
    /\ call = CallOf("import", <<>>, 0, 0)
    /\ result = "ok"
    /\ values = <<>> /\ neigh_values = <<>> /\ normals = <<>> /\ surfaces = <<>>
    /\ problem = <<>>
    /\ pc = "idle" /\ error = "none" /\ stage = "none"
    /\ FS = <<>> /\ loc = NoLocals /\ G_out = <<>> /\ fluxes = <<>>
    /\ phase_cfl = <<>> /\ cfl_pc = "idle" /\ dt = 0
    /\ num_xi \in 2..MaxNum
    /\ num_eta \in 2..MaxNum
    /\ mesh \in [left : CurvesOn(num_eta), bottom : CurvesOn(num_xi),
                 right : CurvesOn(num_eta), top : CurvesOn(num_xi)]
    /\ mesh_x = <<>> /\ mesh_y = <<>> /\ mesh_pc = "ready"
    /\ g_shape = <<>> /\ g_values = <<>> /\ g_neigh_values = <<>> /\ g_normals = <<>>
    /\ g_empty = 0 /\ g_Q_face = <<>> /\ g_G = <<>> /\ g_pc = "idle" /\ g_error = "none"
    /\ cells = <<>> /\ F_out = <<>> /\ F_pc = "idle"

\* generate is called once on the mesh
SpecMesh == InitMesh /\ [][NextMesh]_vars

\* the arguments of one call of G: arrays of one leading shape
InitUpwind ==
    /\ has_variables = FALSE
    /\ cls_variables = <<>>
    /\ descr = <<>>
    /\ instances = <<>>
    /\ types = <<>>
    /\ call = CallOf("import", <<>>, 0, 0)
    /\ result = "ok"
    /\ values = <<>> /\ neigh_values = <<>> /\ normals = <<>> /\ surfaces = <<>>
    /\ problem = <<>>
    /\ pc = "idle" /\ error = "none" /\ stage = "none"
    /\ FS = <<>> /\ loc = NoLocals /\ G_out = <<>> /\ fluxes = <<>>
    /\ phase_cfl = <<>> /\ cfl_pc = "idle" /\ dt = 0
    /\ mesh = <<>> /\ num_xi = 0 /\ num_eta = 0
    /\ mesh_x = <<>> /\ mesh_y = <<>> /\ mesh_pc = "idle"
    /\ g_shape \in Shapes
    /\ g_values \in [Cells(g_shape) -> CellSamples]
    /\ g_neigh_values \in [Cells(g_shape) -> CellSamples]
    /\ g_normals \in [Cells(g_shape) -> NormalSamples]
    /\ g_empty = 0 /\ g_Q_face = <<>> /\ g_G = <<>> /\ g_pc = "ready" /\ g_error = "none"
    /\ cells = <<>> /\ F_out = <<>> /\ F_pc = "idle"

\* G is called once on the arrays
SpecUpwind == InitUpwind /\ [][NextUpwind]_vars

\* the cells of a mesh of num_cells_x by num_cells_y cells
InitEuler ==
    /\ has_variables = FALSE
    /\ cls_variables = <<>>
    /\ descr = <<>>
    /\ instances = <<>>
    /\ types = <<>>
    /\ call = CallOf("import", <<>>, 0, 0)
    /\ result = "ok"
    /\ values = <<>> /\ neigh_values = <<>> /\ normals = <<>> /\ surfaces = <<>>
    /\ problem = <<>>
    /\ pc = "idle" /\ error = "none" /\ stage = "none"
    /\ FS = <<>> /\ loc = NoLocals /\ G_out = <<>> /\ fluxes = <<>>
    /\ phase_cfl = <<>> /\ cfl_pc = "idle" /\ dt = 0
    /\ mesh = <<>> /\ num_xi = 0 /\ num_eta = 0
    /\ mesh_x = <<>> /\ mesh_y = <<>> /\ mesh_pc = "idle"
    /\ g_shape = <<>> /\ g_values = <<>> /\ g_neigh_values = <<>> /\ g_normals = <<>>
    /\ g_empty = 0 /\ g_Q_face = <<>> /\ g_G = <<>> /\ g_pc = "idle" /\ g_error = "none"
    /\ \E sh \in CellShapes : cells \in [Cells(sh) -> EulerSamples]
    /\ F_out = <<>> /\ F_pc = "ready"

\* F is called once per time step
SpecEuler == InitEuler /\ [][NextEuler]_vars


(***************************************************************************)
(* Claims about josie/solver/state.py, checked under SpecState             *)
(***************************************************************************)

\* C1: the field list of a state type defined earlier, and of the instances
\* already created, is never changed by defining or constructing another state
\* type: the type still sees the field list it was defined with, each instance
\* the field list it was built for.
C1_LayoutFixedAtDefinition ==
    /\ \A t \in DOMAIN types : VariablesSeenBy(t) = types[t]
    /\ \A s \in DOMAIN instances : VariablesSeenBy(s) = instances[s].layout

\* C2: for every State alive and every field of the (duplicate-free) field list
\* it was built for, reading the field by name gives the value at the field's
\* defined position.
C2_FieldRoundTrip ==
    \A s \in DOMAIN instances :
        ~HasRepeatedName(instances[s].layout) =>
            \A k \in DOMAIN instances[s].layout :
                /\ CanGetField(instances[s].arr, instances[s].layout[k])
                /\ get_field(instances[s].arr, instances[s].layout[k])
                        = instances[s].arr[k]

PhaseSet == {Phases[1], Phases[2]}
CellPhase(f, ph) == get_phase(At(values, f), ph)
NeighPhase(f, ph) == get_phase(At(neigh_values, f), ph)
\* the largest element of a finite set of numbers
MaxOf(S) == CHOOSE m \in S : \A x \in S : x <= m
RECURSIVE SumOver(_, _)
SumOver(S, term) ==
    IF S = {} THEN 0
    ELSE LET x == CHOOSE y \in S : TRUE IN term[x] + SumOver(S \ {x}, term)
\* the signal speed |U.n| + c of one side of face f for one phase
SignalSpeed(pq, f) ==
    Abs(pq["U"] * At(normals, f)[1] + pq["V"] * At(normals, f)[2]) + pq["c"]
\* the four signal speeds of face f
FaceSpeeds(f) ==
    {SignalSpeed(CellPhase(f, ph), f) : ph \in PhaseSet}
        \cup {SignalSpeed(NeighPhase(f, ph), f) : ph \in PhaseSet}
\* the jump of the k-th conserved field of a phase across face f
Jump(f, ph, k) ==
    NeighPhase(f, ph)[ConservativeFields[k]] - CellPhase(f, ph)[ConservativeFields[k]]

C7_SharedSigma ==
    pc = "done" =>
        \A f \in DOMAIN FS :
            /\ At(loc.sigma, f) = MaxOf(FaceSpeeds(f))
            /\ \A ph \in PhaseSet : \A k \in DOMAIN ConservativeFields :
                /\ At(loc.DeltaQ[ph], f)[k] = Half(MaxOf(FaceSpeeds(f))) * Jump(f, ph, k)
                /\ FS[f][<<ph, ConservativeFields[k]>>]
                        = At(surfaces, f)
                            * (At(loc.DeltaF[ph], f)[k]
                                - Half(MaxOf(FaceSpeeds(f))) * Jump(f, ph, k))

\* a face where both signal speeds of phase 2 are below the largest of phase 1
\* and phase 2 has a jump, beside a face whose largest signal speed is another
C7_Witness ==
    /\ pc = "done"
    /\ \E f \in DOMAIN FS :
        /\ \A side \in {CellPhase(f, Phases[2]), NeighPhase(f, Phases[2])} :
                SignalSpeed(side, f) < MaxOf(FaceSpeeds(f))
        /\ \E k \in DOMAIN ConservativeFields : Jump(f, Phases[2], k) # 0
    /\ \E f \in DOMAIN FS : \E g \in DOMAIN FS :
        /\ MaxOf(FaceSpeeds(g)) > MaxOf(FaceSpeeds(f))
        /\ \E k \in DOMAIN ConservativeFields : Jump(f, Phases[1], k) # 0

C9_DissipationVanishes ==
    pc = "done" =>
        \A f \in DOMAIN FS :
            At(values, f) = At(neigh_values, f) =>
                \A ph \in PhaseSet : \A k \in DOMAIN ConservativeFields :
                    At(loc.DeltaQ[ph], f)[k] = 0

(***************************************************************************)
(* Claim about the two-phase CFL, checked under SpecCFL                    *)
(***************************************************************************)
\* C10: CFL returns exactly the minimum of the two per-phase bounds, however
\* large the two bounds are; no other value enters the minimum.
C10_MinOfPhaseBounds ==
    cfl_pc = "done" =>
        /\ dt \in {phase_cfl[Phases[1]], phase_cfl[Phases[2]]}
        /\ dt <= phase_cfl[Phases[1]]
        /\ dt <= phase_cfl[Phases[2]]

\* what CFL does return: the minimum of the two bounds and of BigValue
C10_CappedMin ==
    cfl_pc = "done" =>
        /\ dt \in {phase_cfl[Phases[1]], phase_cfl[Phases[2]], BigValue}
        /\ dt <= phase_cfl[Phases[1]]
        /\ dt <= phase_cfl[Phases[2]]
        /\ dt <= BigValue

(***************************************************************************)
(* Claim about Mesh.generate, checked under SpecMesh                       *)
(***************************************************************************)
\* the four curves meet at the four corners
CornersCoincide ==
    /\ mesh.left[0] = mesh.bottom[0]
    /\ mesh.left[Steps(num_eta)] = mesh.top[0]
    /\ mesh.right[0] = mesh.bottom[Steps(num_xi)]
    /\ mesh.right[Steps(num_eta)] = mesh.top[Steps(num_xi)]

\* the point of the grid at (i, j) is the point p
GridIs(i, j, p) == mesh_x[i][j] = Den * p[1] /\ mesh_y[i][j] = Den * p[2]

\* C11: for curves that coincide at the four corners and num_xi, num_eta >= 2,
\* x and y have num_xi rows of num_eta entries and the edges of the grid are
\* the four curves at the uniform samples: grid[0, j] = left(eta_j),
\* grid[num_xi-1, j] = right(eta_j), grid[i, 0] = bottom(xi_i),
\* grid[i, num_eta-1] = top(xi_i).
C11_EdgesReproduced ==
    (mesh_pc = "done" /\ CornersCoincide) =>
        /\ DOMAIN mesh_x = 0..(num_xi - 1) /\ DOMAIN mesh_y = 0..(num_xi - 1)
        /\ \A i \in DOMAIN mesh_x :
                /\ DOMAIN mesh_x[i] = 0..(num_eta - 1)
                /\ DOMAIN mesh_y[i] = 0..(num_eta - 1)
        /\ \A j \in 0..(num_eta - 1) :
                /\ GridIs(0, j, mesh.left[j])
                /\ GridIs(num_xi - 1, j, mesh.right[j])
        /\ \A i \in 0..(num_xi - 1) :
                /\ GridIs(i, 0, mesh.bottom[i])
                /\ GridIs(i, num_eta - 1, mesh.top[i])

\* a grid of more than the corners, between curves that are not straight
\* copies of one another and whose corners are not all one point
C11_Witness ==
    /\ mesh_pc = "done"
    /\ CornersCoincide
    /\ num_xi = MaxNum /\ num_eta = MaxNum
    /\ mesh.top[Steps(num_xi)] # mesh.bottom[0]
    /\ mesh.top[1] # mesh.bottom[1]
    /\ mesh.left[1] # mesh.right[1]

(***************************************************************************)
(* Claims about Upwind.G                                                   *)
(***************************************************************************)
\* C12 (checked under SpecFlux): the face-normal interfacial velocity is
\* U_face = 0.5*(UI.n + UI_neigh.n) with UI the closure's interfacial velocity
\* of the cell state and UI_neigh that of the neighbour state.
C12_UFaceAveragesBoth ==
    (pc = "done" /\ LeadingDimsAgree) =>
        \A f \in DOMAIN values :
            U_face(f) = Half(Dot2(uI(values[f]), normals[f])
                                + Dot2(uI(neigh_values[f]), normals[f]))
\* C13 (checked under SpecUpwind): whatever the number of leading dimensions,
\* G returns, and for every cell or face c on its own: if U_face[c] > 0 the face
\* state is neigh_values[c], if U_face[c] < 0 it is values[c], if U_face[c] = 0
\* it is what the buffer held when it was created; G[c] is the outer product
\* of the face state at c with normals[c].
C13_UpwindSelection ==
    g_pc # "ready" =>
        /\ g_pc = "done"
        /\ \A c \in Cells(g_shape) :
            /\ GUFace(c) > 0 => g_Q_face[c] = g_neigh_values[c]
            /\ GUFace(c) < 0 => g_Q_face[c] = g_values[c]
            /\ GUFace(c) = 0 => g_Q_face[c] = [fld \in Fields |-> g_empty]
            /\ \A j \in Fields : \A k \in 1..2 :
                    g_G[c][j][k] = g_Q_face[c][j] * g_normals[c][k]

\* the same for arrays of one leading dimension only
C13_OneLeadingDimension ==
    (g_pc # "ready" /\ Len(g_shape) = 1) =>
        /\ g_pc = "done"
        /\ \A c \in Cells(g_shape) :
            /\ GUFace(c) > 0 => g_Q_face[c] = g_neigh_values[c]
            /\ GUFace(c) < 0 => g_Q_face[c] = g_values[c]
            /\ GUFace(c) = 0 => g_Q_face[c] = [fld \in Fields |-> g_empty]
            /\ \A j \in Fields : \A k \in 1..2 :
                    g_G[c][j][k] = g_Q_face[c][j] * g_normals[c][k]
(***************************************************************************)
(* Claim about EulerProblem.F, checked under SpecEuler                     *)
(***************************************************************************)
\* C14: F returns for every cell (i, j) the 4 x 2 tensor [[rhoU, rhoV],
\* [rhoU*U + p, rhoU*V], [rhoV*U, rhoV*V + p], [(rhoE + p)*U, (rhoE + p)*V]]
\* of that cell's own fields, one tensor per cell of the Nx x Ny array; for
\* rho = 1, U = 1, V = 0, p = 1 and the normal (1, 0) the mass flux F[0, :].n
\* is rho*U = 1.
C14_FluxTensor ==
    F_pc = "done" =>
        /\ DOMAIN F_out = DOMAIN cells
        /\ \A c \in DOMAIN cells :
            LET q == cells[c]
                T == F_out[c]
            IN /\ Len(T) = 4 /\ \A r \in 1..4 : Len(T[r]) = 2
               /\ T[1][1] = q["rhoU"] /\ T[1][2] = q["rhoV"]
               /\ T[2][1] = q["rhoU"] * q["U"] + q["p"] /\ T[2][2] = q["rhoU"] * q["V"]
               /\ T[3][1] = q["rhoV"] * q["U"] /\ T[3][2] = q["rhoV"] * q["V"] + q["p"]
               /\ T[4][1] = (q["rhoE"] + q["p"]) * q["U"]
               /\ T[4][2] = (q["rhoE"] + q["p"]) * q["V"]
               /\ (q["rho"] = 1 /\ q["U"] = 1 /\ q["V"] = 0 /\ q["p"] = 1)
                    => Dot2(T[1], <<1, 0>>) = q["rho"] * q["U"]

\* a mesh of several cells, one of them the cell of the example, the others not
C14_Witness ==
    /\ F_pc = "done"
    /\ \E c \in DOMAIN cells : \E d \in DOMAIN cells :
        /\ c[1] # d[1] /\ c[2] # d[2]
        /\ cells[c] = EulerUnit /\ Dot2(F_out[c][1], <<1, 0>>) = 1
        /\ cells[d] = EulerSkew /\ F_out[d] # F_out[c]

(***************************************************************************)
(* Claims about the debugger and the output buffer of Rusanov.F, checked   *)
(* under SpecFlux                                                          *)
(***************************************************************************)
\* nothing but what np.empty_like left is in the buffer
OnlyGarbageIn(fs) == \A f \in DOMAIN fs : \A fld \in Fields : fs[f][fld] \in GarbageValues

\* C15: the debugger is entered on every call, with no condition: a call that
\* has collected the per-phase sigmas stops in it before the maximum sigma is
\* taken and before any flux is written, and the maximum is taken, a flux is
\* written and a flux is returned only by a step that leaves the debugger.
C15_DebuggerOnEveryCall ==
    [][ /\ (pc = "ready" /\ pc' # "ready" /\ SigmaShapesOK) =>
                /\ pc' = "trace"
                /\ loc'.sigma_array = SigmaArray
                /\ loc'.sigma = <<>> /\ loc'.DeltaF = <<>> /\ loc'.DeltaQ = <<>>
                /\ OnlyGarbageIn(FS')
        /\ (pc = "ready" /\ pc' # "ready" /\ ~SigmaShapesOK) =>
                (pc' = "raised" /\ loc'.sigma = <<>> /\ OnlyGarbageIn(FS'))
        /\ (loc'.sigma # loc.sigma \/ pc' = "done" \/ (pc # "ready" /\ FS' # FS)) =>
                pc = "trace"
      ]_vars

\* a call stopped in the debugger: the sigmas of every face are collected, no
\* maximum is taken and the buffer holds no flux
C15_Witness ==
    /\ pc = "trace"
    /\ Len(loc.sigma_array) = NFaces
    /\ loc.sigma = <<>>
    /\ OnlyGarbageIn(FS)

\* C16: every field of every face of the FS that F returns is assigned a value
\* computed from the inputs: the FS returned is the same whatever the freshly
\* allocated buffer held.
C16_NoUninitialisedField ==
    stage \in {"F", "G", "fluxes"} =>
        \A g \in GarbageValues :
            FS = RusanovFlux([f \in DOMAIN values |-> [fld \in Fields |-> g]],
                             loc.DeltaF, loc.DeltaQ)

\* what F does return: the fields outside the conservative subsets of the two
\* phases hold what the buffer held
C16_OnlyConservativeAssigned ==
    stage \in {"F", "G", "fluxes"} =>
        \E g \in GarbageValues :
            \A f \in DOMAIN FS : \A fld \in Fields :
                (fld[1] = Mixture
                    \/ \A k \in DOMAIN ConservativeFields : fld[2] # ConservativeFields[k])
                        => FS[f][fld] = g

====
